---- MODULE Spec2Model ----
(***************************************************************************)
(* A model of tap_smart_open.streams.SmartOpenStream: path resolution,     *)
(* format-polymorphic record iteration, schema inference and incremental   *)
(* filtering, for one stream instance.                                     *)
(*                                                                         *)
(* Python strings are sequences of one-character strings, so that parsing, *)
(* splitting, sorting and matching are computed and not assumed.           *)
(***************************************************************************)
EXTENDS Integers, Sequences, FiniteSets, TLC

VARIABLES
    stream_config,          \* the stream's configuration dict (immutable)
    store,                  \* storage backend: file basename -> records of the file
    bookmark,               \* the replication-key value of the incoming state
    now,                    \* the clock read by datetime.utcnow()
    _cached_paths,          \* Optional[List[str]]
    _cached_file_contents,  \* Dict[str, bytes], as path -> decoded records
    op,                     \* the last operation run on the stream
    err,                    \* the exception the last operation ended with
    called,                 \* the helper methods the last operation invoked
    listing,                \* what the backend listing returned in the last operation
    ret_paths,              \* the list the last _iter_paths call returned
    hit,                    \* whether that call returned the cached list
    fetched,                \* the paths fetched from the transport, in order
    schema_ret,             \* the value the last schema access returned
    type_map,               \* _infer_schema's type_map after the merge loop
    samples,                \* _infer_schema's samples
    start_val,              \* the cursor the last get_records started from
    pulled,                 \* the records get_records pulled from _iter_records_raw
    outcome,                \* per pulled record: "yield", "skip" or "raise"
    emitted                 \* the records the last get_records yielded

vars == <<stream_config, store, bookmark, now, _cached_paths, _cached_file_contents, op, err,
          called, listing, ret_paths, hit, fetched, schema_ret, type_map, samples,
          start_val, pulled, outcome, emitted>>

----------------------------------------------------------------------------
(* Characters and strings *)

\* The characters the model uses, in code point order.
Alphabet ==
    <<"$", "*", "-", ".", "/", "0", "1", "2", "3", "4", "5", "6", "7", "8", "9", ":",
      "T", "Z", "\\", "^", "a", "b", "c", "d", "f", "h", "p", "s", "t", "v", "x">>

Ord(c) == CHOOSE i \in 1..Len(Alphabet) : Alphabet[i] = c

Digits == {"0", "1", "2", "3", "4", "5", "6", "7", "8", "9"}

DigitVal(c) == Ord(c) - Ord("0")

\* s < t in Python's string order (lexicographic by code point).
StrLt(s, t) ==
    \E i \in 1..(Len(s) + 1) :
        /\ i <= Len(t)
        /\ \A j \in 1..(i - 1) : s[j] = t[j]
        /\ (i = Len(s) + 1 \/ Ord(s[i]) < Ord(t[i]))

Contains(s, c) == \E i \in 1..Len(s) : s[i] = c

EndsWith(s, t) ==
    /\ Len(t) <= Len(s)
    /\ SubSeq(s, Len(s) - Len(t) + 1, Len(s)) = t

StartsWith(s, t) == Len(t) <= Len(s) /\ SubSeq(s, 1, Len(t)) = t

\* The index at which the first occurrence of t in s starts, 0 when there is none.
Find(s, t) ==
    LET hits == {i \in 1..(Len(s) - Len(t) + 1) : SubSeq(s, i, i + Len(t) - 1) = t}
    IN  IF hits = {} THEN 0 ELSE CHOOSE i \in hits : \A j \in hits : i <= j

\* The value of a nonempty all-digit string.
RECURSIVE DecimalValue(_)
DecimalValue(s) ==
    IF Len(s) = 0 THEN 0
    ELSE 10 * DecimalValue(SubSeq(s, 1, Len(s) - 1)) + DigitVal(s[Len(s)])

AllDigits(s) == Len(s) > 0 /\ \A i \in 1..Len(s) : s[i] \in Digits

\* n >= 0 written with at least w digits.
RECURSIVE ZeroPad(_, _)
ZeroPad(n, w) ==
    IF w <= 1 /\ n < 10 THEN <<Alphabet[Ord("0") + n]>>
    ELSE Append(ZeroPad(n \div 10, w - 1), Alphabet[Ord("0") + (n % 10)])

----------------------------------------------------------------------------
(* Python values *)

\* A value is [t, n, s, nan, aware]: t the Python type; n the integer of a bool (0/1)
\* or an int, the tenths of a float, the year of a datetime; s the characters of a
\* str; nan marks float('nan'); aware marks a datetime that carries a time zone.
PyValue(t, n, s, nan, aware) == [t |-> t, n |-> n, s |-> s, nan |-> nan, aware |-> aware]

PyNone == PyValue("none", 0, <<>>, FALSE, FALSE)
PyTrue == PyValue("bool", 1, <<>>, FALSE, FALSE)
PyInt(n) == PyValue("int", n, <<>>, FALSE, FALSE)
PyFloat(tenths) == PyValue("float", tenths, <<>>, FALSE, FALSE)
PyNaN == PyValue("float", 0, <<>>, TRUE, FALSE)
PyStr(s) == PyValue("str", 0, s, FALSE, FALSE)
PyDatetime(year, aware) == PyValue("datetime", year, <<>>, FALSE, aware)
PyDict == PyValue("dict", 0, <<>>, FALSE, FALSE)
PyList == PyValue("list", 0, <<>>, FALSE, FALSE)

IsNumeric(v) == v.t \in {"bool", "int", "float"}

\* A number in tenths, the common scale of int, bool and float.
Tenths(v) == IF v.t = "float" THEN v.n ELSE 10 * v.n

\* The time of day this model's datetimes have: midnight, 1 January.
Midnight ==
    <<"-", "0", "1", "-", "0", "1", "T", "0", "0", ":", "0", "0", ":", "0", "0">>

\* dateutil's isoparse, on the forms YYYY, YYYY-01-01T00:00:00 and the latter with
\* a trailing Z; every other string of the model is one isoparse rejects.
IsoParseOk(s) ==
    /\ Len(s) \in {4, 19, 20}
    /\ AllDigits(SubSeq(s, 1, 4))
    /\ DecimalValue(SubSeq(s, 1, 4)) >= 1
    /\ Len(s) >= 19 => SubSeq(s, 5, 19) = Midnight
    /\ Len(s) = 20 => s[20] = "Z"

isoparse(s) == PyDatetime(DecimalValue(SubSeq(s, 1, 4)), Len(s) = 20)

\* datetime.isoformat() of the clock value `year` (microsecond 0).
isoformat(year) == ZeroPad(year, 4) \o Midnight

Unsigned(s) == IF Len(s) > 0 /\ s[1] = "-" THEN Tail(s) ELSE s

Sign(s) == IF Len(s) > 0 /\ s[1] = "-" THEN -1 ELSE 1

\* int(s) succeeds: an optional sign and digits.
IntOk(s) == AllDigits(Unsigned(s))

IntOf(s) == Sign(s) * DecimalValue(Unsigned(s))

\* float(s) succeeds, for s holding a ".": digits around one point, at least one
\* digit, and (the model's floats being tenths) at most one after the point.
FloatOk(s) ==
    LET u == Unsigned(s)
        dot == Find(u, <<".">>)
        whole == SubSeq(u, 1, dot - 1)
        frac == SubSeq(u, dot + 1, Len(u))
    IN  /\ dot > 0
        /\ Len(whole) + Len(frac) > 0
        /\ Len(frac) <= 1
        /\ \A i \in 1..Len(whole) : whole[i] \in Digits
        /\ \A i \in 1..Len(frac) : frac[i] \in Digits

FloatOf(s) ==
    LET u == Unsigned(s)
        dot == Find(u, <<".">>)
        whole == SubSeq(u, 1, dot - 1)
        frac == SubSeq(u, dot + 1, Len(u))
    IN  Sign(s) * (10 * DecimalValue(whole) + DecimalValue(frac))

_coerce_replication_value(value) ==
    IF IsNumeric(value) \/ value.t = "none" THEN value
    ELSE IF value.t = "str" THEN
        IF IsoParseOk(value.s) THEN isoparse(value.s)
        ELSE IF Contains(value.s, ".") THEN
            IF FloatOk(value.s) THEN PyFloat(FloatOf(value.s)) ELSE value
        ELSE IF IntOk(value.s) THEN PyInt(IntOf(value.s))
        ELSE value
    ELSE value

\* A faulty variant of PyLe, for comparison: a strict comparison.
PyLeStrict(a, b) ==
    IF IsNumeric(a) /\ IsNumeric(b) THEN
        IF a.nan \/ b.nan THEN "false"
        ELSE IF Tenths(a) < Tenths(b) THEN "true" ELSE "false"
    ELSE IF a.t = "str" /\ b.t = "str" THEN
        IF StrLt(a.s, b.s) THEN "true" ELSE "false"
    ELSE IF a.t = "datetime" /\ b.t = "datetime" THEN
        IF a.aware # b.aware THEN "raise"
        ELSE IF a.n < b.n THEN "true" ELSE "false"
    ELSE IF a.t = "list" /\ b.t = "list" THEN "false"
    ELSE "raise"

\* Python's a <= b: "true", "false", or "raise" for a TypeError.
PyLe(a, b) ==
    IF IsNumeric(a) /\ IsNumeric(b) THEN
        IF a.nan \/ b.nan THEN "false"
        ELSE IF Tenths(a) <= Tenths(b) THEN "true" ELSE "false"
    ELSE IF a.t = "str" /\ b.t = "str" THEN
        IF StrLt(a.s, b.s) \/ a.s = b.s THEN "true" ELSE "false"
    ELSE IF a.t = "datetime" /\ b.t = "datetime" THEN
        IF a.aware # b.aware THEN "raise"
        ELSE IF a.n <= b.n THEN "true" ELSE "false"
    ELSE IF a.t = "list" /\ b.t = "list" THEN "true"
    ELSE "raise"

----------------------------------------------------------------------------
(* Records *)

\* A record is a function from its field names to values; its fields come in the
\* order of Columns, the column order of the source.
Columns == <<"id", "k", "v", "_sdc_extracted_at">>

EmptyRecord == [f \in {} |-> PyNone]

Rec1(f, v) == [g \in {f} |-> v]

Get(rec, key) == IF key \in DOMAIN rec THEN rec[key] ELSE PyNone

SetItem(rec, key, v) == [f \in DOMAIN rec \cup {key} |-> IF f = key THEN v ELSE rec[f]]

\* rec.items(), in column order.
Items(rec) == SelectSeq(Columns, LAMBDA f : f \in DOMAIN rec)

----------------------------------------------------------------------------
(* Dicts that keep insertion order *)

\* A dict is its keys in insertion order and the value of each key.
EmptyDict == [keys |-> <<>>, val |-> [k \in {} |-> 0]]

Has(d, k) == k \in DOMAIN d.val

DictSet(d, k, v) ==
    [keys |-> IF Has(d, k) THEN d.keys ELSE Append(d.keys, k),
     val |-> [x \in DOMAIN d.val \cup {k} |-> IF x = k THEN v ELSE d.val[x]]]

----------------------------------------------------------------------------
(* Value Type Classifier and Type Lattice Merger *)

_is_iso_datetime(value) == value.t = "str" /\ IsoParseOk(value.s)

_infer_type_from_value(value) ==
    IF value.t = "none" THEN "null"
    ELSE IF value.t = "bool" THEN "boolean"
    ELSE IF value.t = "int" THEN "integer"
    ELSE IF value.t = "float" THEN "number"
    ELSE IF value.t = "dict" THEN "object"
    ELSE IF value.t = "list" THEN "array"
    ELSE IF value.t = "str" THEN
        IF _is_iso_datetime(value) THEN "date-time" ELSE "string"
    ELSE "string"

_merge_types(types, new_type) ==
    IF new_type = "number" /\ "integer" \in types
    THEN (types \ {"integer"}) \cup {new_type}
    ELSE types \cup {new_type}

\* The type tags in Python's string order.
TagOrder ==
    <<"array", "boolean", "date-time", "integer", "null", "number", "object", "string">>

\* sorted(types)
Sorted(types) == SelectSeq(TagOrder, LAMBDA t : t \in types)

----------------------------------------------------------------------------
(* Schema Inference Engine *)

\* The merge loop of _infer_schema over the fields fs of one record.
RECURSIVE MergeRecord(_, _, _)
MergeRecord(tm, rec, fs) ==
    IF fs = <<>> THEN tm
    ELSE LET k == Head(fs)
             t == _infer_type_from_value(rec[k])
             old == IF Has(tm, k) THEN tm.val[k] ELSE {}
         IN  MergeRecord(DictSet(tm, k, _merge_types(old, t)), rec, Tail(fs))

\* The merge loop of _infer_schema over the samples.
RECURSIVE MergeSamples(_, _)
MergeSamples(tm, recs) ==
    IF recs = <<>> THEN tm
    ELSE MergeSamples(MergeRecord(tm, Head(recs), Items(Head(recs))), Tail(recs))

\* A property schema: "type" is a single tag (scalar) or a list of tags; "format"
\* is "" when the key is absent.
Property(type, scalar, format) == [type |-> type, scalar |-> scalar, format |-> format]

NullableString == Property(<<"string", "null">>, FALSE, "")

\* A faulty variant of Collapse, for comparison: integer is kept next to number.
CollapseKeepInteger(types) == types

\* Lines 149-150: integer and number together collapse to number.
Collapse(types) ==
    IF "integer" \in types /\ "number" \in types THEN types \ {"integer"} ELSE types

\* The property _infer_schema emits for a field whose merged type set is types.
PropertyOf(types) ==
    IF "date-time" \in types THEN
        IF "null" \in types
        THEN Property(<<"string", "null">>, FALSE, "date-time")
        ELSE Property(<<"string">>, TRUE, "date-time")
    ELSE LET ts == Collapse(types)
             non_null_types == Sorted(ts \ {"null"})
         IN  IF ts = {} THEN NullableString
             ELSE IF "null" \in ts THEN
                 IF Len(non_null_types) = 1
                 THEN Property(<<non_null_types[1], "null">>, FALSE, "")
                 ELSE Property(Sorted(ts), FALSE, "")
             ELSE IF Cardinality(ts) = 1
                 THEN Property(Sorted(ts), TRUE, "")
                 ELSE Property(Sorted(ts), FALSE, "")

RECURSIVE PropertiesOf(_, _, _)
PropertiesOf(props, tm, ks) ==
    IF ks = <<>> THEN props
    ELSE PropertiesOf(DictSet(props, Head(ks), PropertyOf(tm.val[Head(ks)])), tm, Tail(ks))

\* Lines 169-178: the replication key is put into the schema.
WithReplicationKey(props, rk) ==
    IF rk # "" /\ ~Has(props, rk) THEN
        IF rk = "_sdc_extracted_at"
        THEN DictSet(props, rk, Property(<<"string", "null">>, FALSE, "date-time"))
        ELSE DictSet(props, rk, NullableString)
    ELSE props

\* Lines 179-181: the primary keys are put into the schema.
RECURSIVE WithPrimaryKeys(_, _)
WithPrimaryKeys(props, pks) ==
    IF pks = <<>> THEN props
    ELSE WithPrimaryKeys(IF Has(props, Head(pks)) THEN props
                         ELSE DictSet(props, Head(pks), NullableString),
                         Tail(pks))

\* A faulty variant of IsRequired, for comparison: the extraction timestamp is not skipped.
IsRequiredNoSkip(field_name, field_schema) ==
    field_schema.scalar \/ ~Contains(field_schema.type, "null")

\* Lines 186-195: whether a property goes into required_fields.
IsRequired(field_name, field_schema) ==
    IF field_name = "_sdc_extracted_at" THEN FALSE
    ELSE field_schema.scalar \/ ~Contains(field_schema.type, "null")

RequiredFields(props) == SelectSeq(props.keys, LAMBDA f : IsRequired(f, props.val[f]))

\* A schema object: the top-level keys it has, its properties and its required
\* list (empty when it has no "required" key). none marks Python's None.
SchemaObject(keys, properties, required) ==
    [none |-> FALSE, keys |-> keys, properties |-> properties, required |-> required]

NoSchema == [none |-> TRUE, keys |-> {}, properties |-> EmptyDict, required |-> <<>>]

\* Lines 130-206 of _infer_schema, from the samples on.
SchemaOf(recs, rk, pks) ==
    LET tm == MergeSamples(EmptyDict, recs)
        sampled == PropertiesOf(EmptyDict, tm, tm.keys)
        properties == WithPrimaryKeys(WithReplicationKey(sampled, rk), pks)
        required_fields == RequiredFields(properties)
    IN  SchemaObject({"type", "additionalProperties", "properties"}
                        \cup (IF required_fields # <<>> THEN {"required"} ELSE {}),
                     properties, required_fields)

----------------------------------------------------------------------------
(* The storage backend *)

\* The directory of the world: /d locally and on the host sftp://h, with the
\* same entries on both.
LocalDir == <<"/", "d">>

RemotePrefix == <<"s", "f", "t", "p", ":", "/", "/", "h">>

RemoteDir == RemotePrefix \o LocalDir

FileA == <<"a", ".", "c", "s", "v">>

FileB == <<"b", ".", "c", "s", "v">>

FileC == <<"c", ".", "t", "x", "t">>

SubDir == <<"s", ".", "c", "s", "v">>

Slash == <<"/">>

\* The entries of the directory, as listdir(detail=True) reports them.
DirEntries ==
    {[name |-> LocalDir \o Slash \o FileA, type |-> "file"],
     [name |-> LocalDir \o Slash \o FileB, type |-> "file"],
     [name |-> LocalDir \o Slash \o FileC, type |-> "file"],
     [name |-> LocalDir \o Slash \o SubDir, type |-> "directory"]}

\* The sequences that list each element of S once.
Orderings(S) ==
    {q \in [1..Cardinality(S) -> S] : \A i, j \in 1..Cardinality(S) : q[i] = q[j] => i = j}

\* path.split('/')[-1]
Basename(path) ==
    LET cuts == {i \in 1..Len(path) : path[i] = "/"}
        last == IF cuts = {} THEN 0 ELSE CHOOSE i \in cuts : \A j \in cuts : j <= i
    IN  SubSeq(path, last + 1, Len(path))

Dirname(path) == SubSeq(path, 1, Len(path) - Len(Basename(path)))

\* Shell-style matching with "*", as the backend's glob does within one directory.
RECURSIVE GlobMatch(_, _)
GlobMatch(pat, name) ==
    IF pat = <<>> THEN name = <<>>
    ELSE IF Head(pat) = "*" THEN
        \E k \in 0..Len(name) : GlobMatch(Tail(pat), SubSeq(name, k + 1, Len(name)))
    ELSE name # <<>> /\ Head(pat) = Head(name) /\ GlobMatch(Tail(pat), Tail(name))

\* urllib.parse.urlparse, on scheme://netloc/path and on a bare path.
urlparse(uri) ==
    LET sep == Find(uri, <<":", "/", "/">>)
        rest == IF sep = 0 THEN uri ELSE SubSeq(uri, sep + 3, Len(uri))
        cut == Find(rest, Slash)
    IN  IF sep = 0 THEN [scheme |-> <<>>, netloc |-> <<>>, path |-> uri]
        ELSE [scheme |-> SubSeq(uri, 1, sep - 1),
              netloc |-> IF cut = 0 THEN rest ELSE SubSeq(rest, 1, cut - 1),
              path |-> IF cut = 0 THEN <<>> ELSE SubSeq(rest, cut, Len(rest))]

\* The files f.path of fsspec.open_files(uri): the files of the directory the glob
\* names whose basename matches it, the protocol stripped.
GlobFiles(uri) ==
    LET path == urlparse(uri).path
    IN  {e.name : e \in {x \in DirEntries : /\ x.type = "file"
                                            /\ Dirname(x.name) = Dirname(path)
                                            /\ GlobMatch(Basename(path), Basename(x.name))}}

\* The file a locator opens: its basename when it names a file of the directory,
\* <<>> when opening it fails.
FileOf(path) ==
    IF /\ Dirname(path) \in {LocalDir \o Slash, RemoteDir \o Slash}
       /\ \E e \in DirEntries : e.type = "file" /\ Basename(e.name) = Basename(path)
    THEN Basename(path)
    ELSE <<>>

----------------------------------------------------------------------------
(* Path Resolver *)

_looks_like_glob(uri) == \E i \in 1..Len(uri) : uri[i] \in {"*", "?", "[", "]"}

\* One element of a compiled pattern: a literal character or "." for any.
RECURSIVE RegexTokens(_)
RegexTokens(p) ==
    IF p = <<>> THEN <<>>
    ELSE IF Head(p) = "\\" /\ Len(p) >= 2
        THEN <<[any |-> FALSE, c |-> p[2]]>> \o RegexTokens(SubSeq(p, 3, Len(p)))
    ELSE IF Head(p) = "."
        THEN <<[any |-> TRUE, c |-> "."]>> \o RegexTokens(Tail(p))
    ELSE <<[any |-> FALSE, c |-> Head(p)]>> \o RegexTokens(Tail(p))

\* re.compile(pattern).search(s), for patterns of literals, escapes and ".",
\* between an optional "^" and an optional "$".
RegexSearch(pattern, s) ==
    LET atStart == Len(pattern) > 0 /\ pattern[1] = "^"
        p1 == IF atStart THEN Tail(pattern) ELSE pattern
        atEnd == /\ Len(p1) > 0
                 /\ p1[Len(p1)] = "$"
                 /\ (Len(p1) = 1 \/ p1[Len(p1) - 1] # "\\")
        toks == RegexTokens(IF atEnd THEN SubSeq(p1, 1, Len(p1) - 1) ELSE p1)
        n == Len(toks)
    IN  \E i \in 1..(Len(s) - n + 1) :
            /\ atStart => i = 1
            /\ atEnd => i + n - 1 = Len(s)
            /\ \A j \in 1..n : toks[j].any \/ s[i + j - 1] = toks[j].c

\* sorted(paths)
RECURSIVE SortPaths(_)
SortPaths(S) ==
    IF S = {} THEN <<>>
    ELSE LET least == CHOOSE x \in S : \A y \in S \ {x} : StrLt(x, y)
         IN  <<least>> \o SortPaths(S \ {least})

\* The elements of a sequence.
Range(q) == {q[i] : i \in 1..Len(q)}

\* Lines 262: the glob's files, sorted.
GlobPaths(files) == SortPaths(Range(files))

\* Lines 284-295: the URIs of the file entries of a listing, in listing order.
ListedPaths(uri, all_files_info) ==
    LET parsed == urlparse(uri)
        files == SelectSeq(all_files_info, LAMBDA info : info.type = "file")
    IN  [i \in 1..Len(files) |->
            LET n == IF StartsWith(files[i].name, Slash) THEN files[i].name
                     ELSE Slash \o files[i].name
            IN  parsed.scheme \o <<":", "/", "/">> \o parsed.netloc \o n]

\* Lines 306-318: the pattern filter.
FilterPaths(pattern, paths) ==
    IF pattern # <<>>
    THEN SelectSeq(paths, LAMBDA path : RegexSearch(pattern, Basename(path)))
    ELSE paths

\* An Optional[List[str]].
None == [none |-> TRUE, v |-> <<>>]

Some(v) == [none |-> FALSE, v |-> v]

\* A faulty variant of IsCached, for comparison: an empty cached list counts as no cache.
IsCachedTruthy(cached) == ~cached.none /\ cached.v # <<>>

\* Line 244: self._cached_paths is not None.
IsCached(cached) == ~cached.none

\* Lines 267-277: the directory _iter_paths lists for a directory-style uri.
remote_dir(uri) ==
    LET u == IF EndsWith(uri, Slash) THEN uri ELSE uri \o Slash
        path == IF urlparse(u).path = <<>> THEN Slash ELSE urlparse(u).path
    IN  IF EndsWith(path, Slash) THEN SubSeq(path, 1, Len(path) - 1) ELSE path

\* What the backend may answer a stream's listing request: nothing when the
\* stream needs no listing; the glob's files in any order; the entries of the
\* directory in any order; a failure, which is all that listing anything but the
\* directory gives.
NoAnswer == [kind |-> "none", entries |-> <<>>]

BackendAnswers(cfg, cached) ==
    IF IsCached(cached) \/ cfg.uris # <<>> \/ cfg.uri = <<>> THEN {NoAnswer}
    ELSE IF _looks_like_glob(cfg.uri) THEN
        {[kind |-> "glob", entries |-> q] :
            q \in Orderings({[name |-> f, type |-> "file"] : f \in GlobFiles(cfg.uri)})}
    ELSE IF cfg.pattern # <<>> THEN
        {[kind |-> "failed", entries |-> <<>>]} \cup
        (IF remote_dir(cfg.uri) = LocalDir
         THEN {[kind |-> "listdir", entries |-> q] : q \in Orderings(DirEntries)}
         ELSE {})
    ELSE {NoAnswer}

\* Lines 270-301: the paths of a directory listing, or the directory's URI when
\* the listing fails.
DirectoryPaths(uri, answer) ==
    IF answer.kind = "failed" THEN <<uri>>
    ELSE ListedPaths(uri, answer.entries)

\* A faulty variant of MissingLocation, for comparison: the call caches and
\* returns an empty list.
MissingLocationCached(cached) == [paths |-> <<>>, raised |-> "", cached |-> Some(<<>>)]

\* Lines 252-254: without uri and uris, _iter_paths raises before it touches
\* self._cached_paths.
MissingLocation(cached) == [paths |-> <<>>, raised |-> "ValueError", cached |-> cached]

\* _iter_paths: [paths, raised, cached], cached being self._cached_paths after the
\* call. answer is the backend's answer to the listing the call makes, if any.
_iter_paths(cfg, cached, answer) ==
    IF IsCached(cached) THEN [paths |-> cached.v, raised |-> "", cached |-> cached]
    ELSE IF cfg.uris # <<>> THEN
        [paths |-> cfg.uris, raised |-> "", cached |-> Some(cfg.uris)]
    ELSE IF cfg.uri = <<>> THEN MissingLocation(cached)
    ELSE LET uri == IF ~_looks_like_glob(cfg.uri) /\ cfg.pattern # <<>>
                       /\ ~EndsWith(cfg.uri, Slash)
                    THEN cfg.uri \o Slash ELSE cfg.uri
             found == IF _looks_like_glob(cfg.uri)
                          THEN GlobPaths([i \in 1..Len(answer.entries) |->
                                             answer.entries[i].name])
                      ELSE IF cfg.pattern # <<>> THEN DirectoryPaths(uri, answer)
                      ELSE <<uri>>
             paths == FilterPaths(cfg.pattern, found)
         IN  [paths |-> paths, raised |-> "", cached |-> Some(paths)]

----------------------------------------------------------------------------
(* Format Reader *)

Formats == {<<"c", "s", "v">>, <<"j", "s", "o", "n", "l">>, <<"j", "s", "o", "n">>,
            <<"p", "a", "r", "q", "u", "e", "t">>}

\* str.lower(), on the letters format tags are written in.
LowerChar(c) ==
    IF c = "C" THEN "c" ELSE IF c = "S" THEN "s" ELSE IF c = "V" THEN "v" ELSE c

lower(s) == [i \in 1..Len(s) |-> LowerChar(s[i])]

\* Lines 356-361: _iter_csv turns a float that is NaN into None.
Sanitize(rec) == [f \in DOMAIN rec |-> IF rec[f].t = "float" /\ rec[f].nan THEN PyNone ELSE rec[f]]

\* The records a reader yields from the content of a file.
Decode(fmt, content) ==
    IF fmt = <<"c", "s", "v">> THEN [i \in 1..Len(content) |-> Sanitize(content[i])]
    ELSE content

\* A faulty variant of RecordEvents, for comparison: the loop stops one record short of the end.
RecordEventsShort(path, recs) ==
    [i \in 1..(Len(recs) - 1) |-> [kind |-> "rec", path |-> path, rec |-> recs[i], err |-> ""]]

\* Lines 421-422: every record of the reader is yielded.
RecordEvents(path, recs) ==
    [i \in 1..Len(recs) |-> [kind |-> "rec", path |-> path, rec |-> recs[i], err |-> ""]]

\* _iter_records_raw, run to its end: what it does, in order. "fetch" is a read of
\* a path from the transport, "rec" a record it yields, "error" the exception
\* that ends it. cache is self._cached_file_contents as it goes.
RECURSIVE RawEvents(_, _, _, _)
RawEvents(paths, cache, fmt, files) ==
    IF paths = <<>> THEN <<>>
    ELSE LET p == Head(paths)
         IN  IF fmt \notin Formats
                 THEN <<[kind |-> "error", path |-> p, rec |-> EmptyRecord, err |-> "ValueError"]>>
             ELSE IF fmt = <<"c", "s", "v">> /\ p \in DOMAIN cache
                 THEN RecordEvents(p, Decode(fmt, cache[p]))
                          \o RawEvents(Tail(paths), cache, fmt, files)
             ELSE IF FileOf(p) = <<>>
                 THEN <<[kind |-> "error", path |-> p, rec |-> EmptyRecord, err |-> "IOError"]>>
             ELSE <<[kind |-> "fetch", path |-> p, rec |-> EmptyRecord, err |-> ""]>>
                      \o RecordEvents(p, Decode(fmt, files[FileOf(p)]))
                      \o RawEvents(Tail(paths),
                                   IF fmt = <<"c", "s", "v">>
                                   THEN [x \in DOMAIN cache \cup {p} |->
                                            IF x = p THEN files[FileOf(p)] ELSE cache[x]]
                                   ELSE cache,
                                   fmt, files)

----------------------------------------------------------------------------
(* Consuming _iter_records_raw *)

\* The number of records among the first i events.
RecCount(events, i) == Cardinality({j \in 1..i : events[j].kind = "rec"})

\* The events that happen when the consumer stops pulling at the first event that
\* is an error or whose index is in stops; all of them when there is none.
Consumed(events, stops) ==
    LET ends == {i \in 1..Len(events) : events[i].kind = "error" \/ i \in stops}
    IN  IF ends = {} THEN events
        ELSE SubSeq(events, 1, CHOOSE i \in ends : \A j \in ends : i <= j)

RecordsOf(events) ==
    LET recs == SelectSeq(events, LAMBDA e : e.kind = "rec")
    IN  [i \in 1..Len(recs) |-> recs[i].rec]

FetchedOf(events) ==
    LET fs == SelectSeq(events, LAMBDA e : e.kind = "fetch")
    IN  [i \in 1..Len(fs) |-> fs[i].path]

ErrorOf(events) ==
    IF events # <<>> /\ events[Len(events)].kind = "error" THEN events[Len(events)].err ELSE ""

\* A faulty variant of CacheAfter, for comparison: nothing read is retained.
CacheAfterNothing(cache, fmt, events, files) == cache

\* Lines 338-347: self._cached_file_contents after the fetches of events.
CacheAfter(cache, fmt, events, files) ==
    IF fmt = <<"c", "s", "v">> THEN
        [x \in DOMAIN cache \cup Range(FetchedOf(events)) |->
            IF x \in DOMAIN cache THEN cache[x] ELSE files[FileOf(x)]]
    ELSE cache

----------------------------------------------------------------------------
(* Incremental Filter *)

\* A faulty variant of Inject, for comparison: the timestamp is set only where the record has none.
InjectIfAbsent(rec, rk, extraction_time) ==
    IF rk = "_sdc_extracted_at" /\ rk \notin DOMAIN rec
    THEN SetItem(rec, rk, PyStr(extraction_time)) ELSE rec

\* Lines 439-440: the extraction timestamp is put into the record.
Inject(rec, rk, extraction_time) ==
    IF rk = "_sdc_extracted_at" THEN SetItem(rec, rk, PyStr(extraction_time)) ELSE rec

\* Lines 450-456: the cursor as it is compared.
start_val_cmp(sv) ==
    IF sv.t = "str" THEN (IF IsoParseOk(sv.s) THEN isoparse(sv.s) ELSE sv) ELSE sv

\* Lines 443-460: what get_records does with a record: "yield" it, "skip" it
\* (continue) or "raise" a TypeError.
Admit(rec, rk, sv) ==
    IF rk # "" /\ sv.t # "none" THEN
        LET rv == _coerce_replication_value(Get(rec, rk))
        IN  IF rv.t = "none" THEN "yield"
            ELSE LET le == PyLe(rv, start_val_cmp(sv))
                 IN  IF le = "raise" THEN "raise"
                     ELSE IF le = "true" THEN "skip" ELSE "yield"
    ELSE "yield"

----------------------------------------------------------------------------
(* The stream *)

Truthy(schema) == ~schema.none /\ schema.keys # {}

Years == {2024, 2025}

SdcKey == "_sdc_extracted_at"

\* schema: the explicit schema, or _infer_schema().
SchemaAccess ==
    /\ IF Truthy(stream_config.schema) THEN
            /\ schema_ret' = stream_config.schema
            /\ called' = {}
            /\ err' = ""
            /\ listing' = NoAnswer
            /\ hit' = FALSE
            /\ fetched' = <<>>
            /\ type_map' = EmptyDict
            /\ samples' = <<>>
            /\ UNCHANGED <<_cached_paths, _cached_file_contents, ret_paths>>
       ELSE \E answer \in BackendAnswers(stream_config, _cached_paths) :
            \E r \in {_iter_paths(stream_config, _cached_paths, answer)} :
            \E all \in {IF r.raised # "" THEN <<>>
                        ELSE RawEvents(r.paths, _cached_file_contents,
                                       lower(stream_config.format), store)} :
            \E events \in {Consumed(all, {i \in 1..Len(all) :
                                              /\ all[i].kind = "rec"
                                              /\ RecCount(all, i) >= stream_config.infer_samples})} :
            \E failed \in {IF r.raised # "" THEN r.raised ELSE ErrorOf(events)} :
                /\ called' = {"_infer_schema", "_iter_records_raw", "_iter_paths"}
                /\ err' = failed
                /\ listing' = answer
                /\ hit' = IsCached(_cached_paths)
                /\ ret_paths' = r.paths
                /\ _cached_paths' = r.cached
                /\ fetched' = FetchedOf(events)
                /\ _cached_file_contents' =
                       CacheAfter(_cached_file_contents, lower(stream_config.format),
                                  events, store)
                /\ samples' = RecordsOf(events)
                /\ type_map' = IF failed # "" THEN EmptyDict
                               ELSE MergeSamples(EmptyDict, RecordsOf(events))
                /\ schema_ret' = IF failed # "" THEN NoSchema
                                 ELSE SchemaOf(RecordsOf(events),
                                               stream_config.replication_key,
                                               stream_config.keys)
    /\ op' = "schema"
    /\ start_val' = PyNone
    /\ pulled' = <<>>
    /\ outcome' = <<>>
    /\ emitted' = <<>>
    /\ UNCHANGED <<stream_config, store, bookmark, now>>

\* The records of decisions that are yielded (line 460).
Yielded(recs, decisions) ==
    LET kept == SelectSeq([i \in 1..Len(recs) |-> i], LAMBDA i : decisions[i] = "yield")
    IN  [j \in 1..Len(kept) |-> recs[kept[j]]]

\* get_records(context), consumed to its end; t is the clock's reading.
GetRecords ==
    \E t \in {y \in Years : y >= now} :
    \E answer \in BackendAnswers(stream_config, _cached_paths) :
    \E rk \in {stream_config.replication_key} :
    \E sv \in {IF rk # "" THEN bookmark ELSE PyNone} :
    \E r \in {_iter_paths(stream_config, _cached_paths, answer)} :
    \E raw \in {IF r.raised # "" THEN <<>>
                ELSE RawEvents(r.paths, _cached_file_contents,
                               lower(stream_config.format), store)} :
    \E all \in {[i \in 1..Len(raw) |->
                    [raw[i] EXCEPT !.rec = Inject(raw[i].rec, rk, isoformat(t) \o <<"Z">>)]]} :
    \E events \in {Consumed(all, {i \in 1..Len(all) :
                                      /\ all[i].kind = "rec"
                                      /\ Admit(all[i].rec, rk, sv) = "raise"})} :
    \E recs \in {RecordsOf(events)} :
    \E decisions \in {[i \in 1..Len(recs) |-> Admit(recs[i], rk, sv)]} :
        /\ now' = t
        /\ op' = "get_records"
        /\ called' = {"_iter_records_raw", "_iter_paths"}
        /\ err' = IF r.raised # "" THEN r.raised
                  ELSE IF ErrorOf(events) # "" THEN ErrorOf(events)
                  ELSE IF \E i \in 1..Len(recs) : decisions[i] = "raise" THEN "TypeError"
                  ELSE ""
        /\ listing' = answer
        /\ hit' = IsCached(_cached_paths)
        /\ ret_paths' = r.paths
        /\ _cached_paths' = r.cached
        /\ fetched' = FetchedOf(events)
        /\ _cached_file_contents' =
               CacheAfter(_cached_file_contents, lower(stream_config.format), events, store)
        /\ start_val' = sv
        /\ pulled' = recs
        /\ outcome' = decisions
        /\ emitted' = Yielded(recs, decisions)
        /\ schema_ret' = NoSchema
        /\ type_map' = EmptyDict
        /\ samples' = <<>>
        /\ UNCHANGED <<stream_config, store, bookmark>>

Next == SchemaAccess \/ GetRecords

----------------------------------------------------------------------------
(* Configurations and initial states *)

Config(uri, uris, pattern, format, schema, replication_key, keys) ==
    [uri |-> uri, uris |-> uris, pattern |-> pattern, format |-> format,
     schema |-> schema, replication_key |-> replication_key, keys |-> keys,
     infer_samples |-> 2000]

Csv == <<"c", "s", "v">>

Jsonl == <<"j", "s", "o", "n", "l">>

\* The pattern \.csv$ and the pattern \.txt$
CsvPattern == <<"\\", ".", "c", "s", "v", "$">>

TxtPattern == <<"\\", ".", "t", "x", "t", "$">>

GlobUri == LocalDir \o <<"/", "*", ".", "c", "s", "v">>

UriA == RemoteDir \o Slash \o FileA

UriB == RemoteDir \o Slash \o FileB

\* An explicit schema with entries, and one with none.
ExplicitSchema ==
    SchemaObject({"type", "properties"},
                 DictSet(EmptyDict, "id", Property(<<"string">>, FALSE, "")), <<>>)

EmptySchema == SchemaObject({}, EmptyDict, <<>>)

\* The sequences over S of length at most n.
SeqsUpTo(S, n) == UNION {[1..m -> S] : m \in 0..n}

\* The state after __init__, but for the configuration, the world and the clock.
Constructed ==
    /\ _cached_paths = None
    /\ _cached_file_contents = [x \in {} |-> <<>>]
    /\ op = "init"
    /\ err = ""
    /\ called = {}
    /\ listing = NoAnswer
    /\ ret_paths = <<>>
    /\ hit = FALSE
    /\ fetched = <<>>
    /\ schema_ret = NoSchema
    /\ type_map = EmptyDict
    /\ samples = <<>>
    /\ start_val = PyNone
    /\ pulled = <<>>
    /\ outcome = <<>>
    /\ emitted = <<>>

\* Files with fixed records, told apart by their ids.
FixedStore ==
    [f \in {FileA, FileB, FileC} |->
        IF f = FileA THEN <<SetItem(Rec1("id", PyInt(1)), "k", PyInt(1)),
                            SetItem(Rec1("id", PyInt(2)), "k", PyInt(2))>>
        ELSE IF f = FileB THEN <<SetItem(Rec1("id", PyInt(3)), "k", PyInt(3))>>
        ELSE <<SetItem(Rec1("id", PyInt(4)), "k", PyNaN)>>]

\* Every form of location, pattern, format tag and schema, over fixed files.
Init ==
    /\ Constructed
    /\ now = 2024
    /\ stream_config \in
         {Config(uri, uris, pattern, format, schema, rk, <<"id">>) :
            uri \in {<<>>, RemoteDir, GlobUri, UriA},
            uris \in {<<>>, <<UriB, UriA>>},
            pattern \in {<<>>, CsvPattern, TxtPattern},
            format \in {Csv, Jsonl, <<"C", "S", "V">>, <<"x", "m", "l">>},
            schema \in {NoSchema, EmptySchema, ExplicitSchema},
            rk \in {"", "k"}}
    /\ store = FixedStore
    /\ bookmark \in {PyNone, PyInt(1)}

Spec == Init /\ [][Next]_vars

----------------------------------------------------------------------------
(* Further initial states: one file of varying records *)

MaxFilterRecs == 2

MaxSdcRecs == 2

MaxSampleRecs == 3

\* The store whose file a.csv holds content, the other files nothing.
StoreOf(content) == [f \in {FileA, FileB, FileC} |-> IF f = FileA THEN content ELSE <<>>]

\* Records whose replication key k is absent, null, a number or a string of each
\* kind the coercion tells apart.
FilterRecords ==
    {EmptyRecord} \cup
    {Rec1("k", v) : v \in {PyNone, PyInt(1), PyInt(2), PyFloat(15), PyNaN,
                           PyStr(<<"2">>), PyStr(<<"1", ".", "5">>),
                           PyStr(<<"2", "0", "2", "4">>), PyStr(<<"2", "0", "2", "5">>),
                           PyStr(<<"a", "b", "c">>), PyStr(<<"a", "b", "d">>)}}

Cursors ==
    {PyNone, PyInt(1), PyInt(2), PyFloat(15), PyStr(<<"2">>),
     PyStr(<<"2", "0", "2", "4">>), PyStr(<<"a", "b", "c">>)}

InitFilter ==
    /\ Constructed
    /\ now = 2025
    /\ stream_config = Config(UriA, <<>>, <<>>, Jsonl, NoSchema, "k", <<>>)
    /\ store \in {StoreOf(c) : c \in SeqsUpTo(FilterRecords, MaxFilterRecs)}
    /\ bookmark \in Cursors

SpecFilter == InitFilter /\ [][Next]_vars

\* Records that come with an _sdc_extracted_at of their own, or without.
SdcRecords ==
    {EmptyRecord, Rec1(SdcKey, PyNone), Rec1(SdcKey, PyInt(5)),
     Rec1(SdcKey, PyStr(<<"a", "b", "c">>))}

\* Bookmarks of a stream replicated by extraction time: none, the extraction
\* times of earlier runs, and values that are no extraction time.
SdcCursors ==
    {PyNone, PyStr(isoformat(2023) \o <<"Z">>), PyStr(isoformat(2024) \o <<"Z">>),
     PyStr(<<"2", "0", "2", "4">>), PyInt(1)}

InitSdc ==
    /\ Constructed
    /\ now = 2024
    /\ stream_config \in {Config(UriA, <<>>, <<>>, format, NoSchema, SdcKey, <<>>) :
                            format \in {Csv, Jsonl}}
    /\ store \in {StoreOf(c) : c \in SeqsUpTo(SdcRecords, MaxSdcRecs)}
    /\ bookmark \in SdcCursors

SpecSdc == InitSdc /\ [][Next]_vars

\* Records whose field v is absent or holds a value of each type tag, and a
\* record with an _sdc_extracted_at of its own.
SampleRecords ==
    {EmptyRecord, Rec1(SdcKey, PyInt(5))} \cup
    {Rec1("v", x) : x \in {PyNone, PyTrue, PyInt(1), PyFloat(15), PyDict,
                           PyStr(<<"a", "b", "c">>), PyStr(<<"2", "0", "2", "4">>)}}

InitInfer ==
    /\ Constructed
    /\ now = 2025
    /\ stream_config \in {Config(UriA, <<>>, <<>>, Jsonl, NoSchema, "", <<>>),
                          Config(UriA, <<>>, <<>>, Jsonl, NoSchema, "k", <<"id">>),
                          Config(UriA, <<>>, <<>>, Jsonl, NoSchema, SdcKey, <<"v">>)}
    /\ store \in {StoreOf(c) : c \in SeqsUpTo(SampleRecords, MaxSampleRecs)}
    /\ bookmark = PyNone

SpecInfer == InitInfer /\ [][Next]_vars

MaxInferSamples == 4

\* Streams over an explicit list of resources, one of them listed twice, with
\* every sampling limit from 0 on.
InitSample ==
    /\ Constructed
    /\ now = 2025
    /\ stream_config \in
         {[Config(<<>>, uris, <<>>, format, NoSchema, rk, <<>>) EXCEPT !.infer_samples = n] :
            uris \in {<<UriA, UriB>>, <<UriB, UriA>>, <<UriA, UriA>>},
            format \in {Csv, Jsonl},
            rk \in {"", "k"},
            n \in 0..MaxInferSamples}
    /\ store = FixedStore
    /\ bookmark = PyNone

SpecSample == InitSample /\ [][Next]_vars

----------------------------------------------------------------------------
(* Properties *)

\* Whether an order holds between two coerced values: both are numbers and
\* neither is NaN, both are strings, or both are datetimes of one kind.
Comparable(v, c) ==
    \/ IsNumeric(v) /\ IsNumeric(c) /\ ~v.nan /\ ~c.nan
    \/ v.t = "str" /\ c.t = "str"
    \/ v.t = "datetime" /\ c.t = "datetime" /\ v.aware = c.aware

\* v > c, for comparable v and c.
Greater(v, c) ==
    IF v.t = "str" THEN StrLt(c.s, v.s)
    ELSE IF v.t = "datetime" THEN v.n > c.n
    ELSE Tenths(v) > Tenths(c)

\* C1: in get_records with a cursor C, a record whose replication-key value is
\* null or absent is emitted, and a record whose value V is comparable with C is
\* emitted if and only if V > C (V = C is dropped).
C1_IncrementalFilter ==
    (op = "get_records" /\ stream_config.replication_key # "" /\ start_val # PyNone) =>
        \A i \in 1..Len(pulled) :
            LET value == Get(pulled[i], stream_config.replication_key)
                V == _coerce_replication_value(value)
                C == start_val_cmp(start_val)
            IN  /\ value = PyNone => outcome[i] = "yield"
                /\ Comparable(V, C) => (outcome[i] = "yield" <=> Greater(V, C))
                /\ emitted = Yielded(pulled, outcome)

\* C1's case: one run drops a record equal to the cursor, emits a greater one
\* and emits one without a value.
C1_Witness ==
    /\ op = "get_records"
    /\ start_val # PyNone
    /\ \E i, j \in 1..Len(pulled) :
        /\ _coerce_replication_value(Get(pulled[i], "k")) = start_val_cmp(start_val)
        /\ outcome[i] = "skip"
        /\ Get(pulled[j], "k") = PyNone
        /\ outcome[j] = "yield"
    /\ Len(emitted) = 1

\* The tags of the values sampled for field k, and the fields sampled.
ObservedTags(k) ==
    {_infer_type_from_value(samples[i][k]) :
        i \in {j \in 1..Len(samples) : k \in DOMAIN samples[j]}}

SampledFields == UNION {DOMAIN samples[i] : i \in 1..Len(samples)}

Inferred == op = "schema" /\ err = "" /\ "_infer_schema" \in called

\* C2: the type set _merge_types accumulates for a field never holds integer
\* and number together, in whatever order the tags come.
C2_NeverIntegerWithNumber ==
    \A k \in DOMAIN type_map.val : ~({"integer", "number"} \subseteq type_map.val[k])

\* C3: with an explicit schema in the configuration, be it one with no entries,
\* a schema access returns it and runs no inference.
C3_ExplicitSchemaReturned ==
    (op = "schema" /\ ~stream_config.schema.none) =>
        (schema_ret = stream_config.schema /\ called = {})

\* C4: once _iter_paths has resolved the paths, every later call returns the
\* cached list, the empty list too, and asks the backend for no listing; and a
\* call of a stream that has a location resolves them.
C4_PathsResolvedOnce ==
    [][/\ ~_cached_paths.none =>
            /\ _cached_paths' = _cached_paths
            /\ listing' = NoAnswer
            /\ "_iter_paths" \in called' => (hit' /\ ret_paths' = _cached_paths.v)
       /\ ("_iter_paths" \in called'
            /\ (stream_config.uris # <<>> \/ stream_config.uri # <<>>)) =>
            (~_cached_paths'.none /\ _cached_paths'.v = ret_paths')]_vars

\* C4's case: a call is answered from a cached empty list.
C4_Witness == hit /\ ~_cached_paths.none /\ ret_paths = <<>>

\* C5: a directory location with a filename pattern resolves to the file entries
\* whose basename matches, in sorted order, whatever the order of the listing.
C5_DirectoryListingSorted ==
    ("_iter_paths" \in called /\ ~hit /\ listing.kind = "listdir") =>
        ret_paths = SortPaths({RemotePrefix \o e.name :
                                 e \in {x \in DirEntries :
                                          /\ x.type = "file"
                                          /\ RegexSearch(stream_config.pattern,
                                                         Basename(x.name))}})

\* C6: a stream replicated by _sdc_extracted_at emits only records that hold an
\* _sdc_extracted_at that is a timestamp, whatever the source record held.
C6_ExtractionTimestamp ==
    (op = "get_records" /\ stream_config.replication_key = SdcKey) =>
        \A i \in 1..Len(emitted) :
            /\ SdcKey \in DOMAIN emitted[i]
            /\ emitted[i][SdcKey].t = "str"
            /\ IsoParseOk(emitted[i][SdcKey].s)

\* C6's case: with a cursor, a record is emitted whose source held a null
\* _sdc_extracted_at.
C6_Witness ==
    /\ op = "get_records"
    /\ stream_config.replication_key = SdcKey
    /\ start_val # PyNone
    /\ Len(store[FileA]) = 1
    /\ store[FileA][1] = Rec1(SdcKey, PyNone)
    /\ Len(emitted) = 1

\* The records of the resources paths, in order, as get_records hands them on.
RECURSIVE AllRecords(_)
AllRecords(paths) ==
    IF paths = <<>> THEN <<>>
    ELSE LET recs == Decode(lower(stream_config.format), store[FileOf(Head(paths))])
         IN  [i \in 1..Len(recs) |->
                 IF stream_config.replication_key = SdcKey
                 THEN SetItem(recs[i], SdcKey, PyStr(isoformat(now) \o <<"Z">>))
                 ELSE recs[i]]
             \o AllRecords(Tail(paths))

\* C7: without a cursor, get_records emits the records of every resolved
\* resource, in resolution order, each once.
C7_EverythingEmitted ==
    (op = "get_records" /\ err = "" /\ start_val = PyNone) =>
        emitted = AllRecords(ret_paths)

\* C7's case: the records of two resources are emitted.
C7_Witness ==
    /\ op = "get_records"
    /\ err = ""
    /\ start_val = PyNone
    /\ stream_config.replication_key # ""
    /\ Len(ret_paths) = 2
    /\ Len(emitted) = 3

C9_RequiredFields ==
    Inferred =>
        /\ Range(schema_ret.required) =
               {k \in SampledFields : "null" \notin ObservedTags(k) /\ k # SdcKey}
        /\ Len(schema_ret.required) = Cardinality(Range(schema_ret.required))
        /\ "required" \in schema_ret.keys <=> schema_ret.required # <<>>
        /\ \A k \in Range(schema_ret.properties.keys) \ SampledFields :
               k \notin Range(schema_ret.required)

\* C9's case: _sdc_extracted_at is sampled without null, another field is
\* required and the key fields are synthesized.
C9_Witness ==
    /\ Inferred
    /\ SdcKey \in SampledFields
    /\ "null" \notin ObservedTags(SdcKey)
    /\ schema_ret.required = <<"v">>
    /\ {"k", "id"} \subseteq Range(schema_ret.properties.keys)

\* C10: with a format tag that is none of csv, jsonl, json, parquet, reading the
\* stream's records fails, whatever the resolved paths, an empty list too.
C10_UnsupportedFormatFails ==
    ("_iter_records_raw" \in called /\ lower(stream_config.format) \notin Formats) =>
        err # ""

\* C11: a cursor that arrives as a string is compared as
\* _coerce_replication_value makes it (datetime, else float or integer, else the
\* string), so that a numeric record key meets a numeric-string cursor as a
\* number and get_records raises nothing.
C11_StringCursorCoerced ==
    (op = "get_records" /\ stream_config.replication_key # "" /\ start_val.t = "str") =>
        LET C == _coerce_replication_value(start_val)
        IN  \A i \in 1..Len(pulled) :
                 LET V == _coerce_replication_value(Get(pulled[i],
                                                        stream_config.replication_key))
                 IN  (IsNumeric(C) /\ IsNumeric(V) /\ ~V.nan) =>
                         /\ outcome[i] # "raise"
                         /\ outcome[i] = "yield" <=> Greater(V, C)

\* The paths of the location before the pattern filter, for a call that resolved
\* them from the answer in listing.
Unfiltered ==
    IF stream_config.uris # <<>> THEN stream_config.uris
    ELSE IF _looks_like_glob(stream_config.uri)
        THEN GlobPaths([i \in 1..Len(listing.entries) |-> listing.entries[i].name])
    ELSE IF stream_config.pattern # <<>>
        THEN DirectoryPaths(IF EndsWith(stream_config.uri, Slash) THEN stream_config.uri
                            ELSE stream_config.uri \o Slash, listing)
    ELSE <<stream_config.uri>>

\* C12: with a filename pattern configured, every path _iter_paths returns has a
\* basename the pattern matches, be the location a list of uris, a glob, a
\* directory or a literal uri; and the paths are those of the location that
\* match, in their order.
C12_PatternFiltersEveryLocation ==
    ("_iter_paths" \in called /\ stream_config.pattern # <<>> /\ ~_cached_paths.none) =>
        /\ \A i \in 1..Len(ret_paths) :
               RegexSearch(stream_config.pattern, Basename(ret_paths[i]))
        /\ ~hit => ret_paths = SelectSeq(Unfiltered,
                                         LAMBDA path : RegexSearch(stream_config.pattern,
                                                                   Basename(path)))

\* C13: when the listing of a directory location with a filename pattern fails,
\* path resolution raises nothing and resolves to the configured location string
\* alone.
C13_ListingFailureFallsBack ==
    ("_iter_paths" \in called /\ ~hit /\ listing.kind = "failed") =>
        /\ ~_cached_paths.none
        /\ ret_paths = <<stream_config.uri>>

\* The smaller of two numbers.
Min(a, b) == IF a <= b THEN a ELSE b

\* The index of the resource of paths in which the n-th record lies, the last
\* resource when there are fewer than n records.
ResourceOfRecord(paths, n) ==
    LET upto == {j \in 1..Len(paths) : Len(AllRecords(SubSeq(paths, 1, j))) >= n}
    IN  IF upto = {} THEN Len(paths) ELSE CHOOSE j \in upto : \A i \in upto : j <= i

\* C14: for every infer_samples N >= 0, _infer_schema samples exactly the first
\* min(N, total) records of the resolved resources in resolution order, never
\* more than N, and opens no resource after the one in which the bound was
\* reached.
C14_SampleBound ==
    (op = "schema" /\ "_infer_schema" \in called /\ err = "") =>
        LET total == AllRecords(ret_paths)
            N == stream_config.infer_samples
        IN  /\ samples = SubSeq(total, 1, Min(N, Len(total)))
            /\ Len(samples) <= N
            /\ Range(fetched) \subseteq
                   Range(SubSeq(ret_paths, 1, ResourceOfRecord(ret_paths, N)))

\* C15: in the inferred schema, a sampled field never seen null has a single
\* scalar type, not a list, and is in the required list, whatever non-null tags
\* were seen for it (_sdc_extracted_at, which is never required, aside).
C15_NeverNullIsScalarRequired ==
    Inferred =>
        \A k \in SampledFields \ {SdcKey} :
            "null" \notin ObservedTags(k) =>
                /\ schema_ret.properties.val[k].scalar
                /\ Len(schema_ret.properties.val[k].type) = 1
                /\ k \in Range(schema_ret.required)

\* The records _iter_csv reads for paths out of the content cache.
RECURSIVE CachedRecords(_, _)
CachedRecords(paths, cache) ==
    IF paths = <<>> THEN <<>>
    ELSE Decode(Csv, cache[Head(paths)]) \o CachedRecords(Tail(paths), cache)

\* C16: on a csv stream, over any schema accesses and get_records calls, a
\* resource is fetched from the transport only while the content cache does not
\* hold it, and once in an operation; what is fetched is retained and never
\* replaced; and the records an operation reads are those of the retained
\* content, so every read of a resource gives the records of its first read.
C16_ContentFetchedOnce ==
    [][lower(stream_config.format) = Csv =>
        /\ \A i \in 1..Len(fetched') :
            /\ fetched'[i] \notin DOMAIN _cached_file_contents
            /\ fetched'[i] \in DOMAIN _cached_file_contents'
            /\ \A j \in 1..Len(fetched') : fetched'[j] = fetched'[i] => i = j
        /\ \A p \in DOMAIN _cached_file_contents :
            /\ p \in DOMAIN _cached_file_contents'
            /\ _cached_file_contents'[p] = _cached_file_contents[p]
        /\ (op' = "get_records" /\ err' = "") =>
               pulled' = CachedRecords(ret_paths', _cached_file_contents')
        /\ (op' = "schema" /\ err' = "" /\ "_infer_schema" \in called') =>
               \E n \in 0..Len(ret_paths') :
                   LET recs == CachedRecords(SubSeq(ret_paths', 1, n),
                                             _cached_file_contents')
                   IN  /\ Range(SubSeq(ret_paths', 1, n)) \subseteq
                              DOMAIN _cached_file_contents'
                       /\ Len(samples') <= Len(recs)
                       /\ samples' = SubSeq(recs, 1, Len(samples'))]_vars

\* C16's case: a csv stream reads the three records of its two resources with
\* no fetch, both being in the content cache.
C16_Witness ==
    /\ lower(stream_config.format) = Csv
    /\ op = "get_records"
    /\ err = ""
    /\ fetched = <<>>
    /\ DOMAIN _cached_file_contents = {UriA, UriB}
    /\ Len(pulled) = 3

\* C17: a stream with neither uri nor a nonempty uris fails every call of
\* _iter_paths with the ValueError of line 254, and its path cache stays unset,
\* so that no call ever returns a list.
C17_MissingLocationFails ==
    (stream_config.uri = <<>> /\ stream_config.uris = <<>>) =>
        /\ _cached_paths.none
        /\ ~hit
        /\ "_iter_paths" \in called =>
            (err = "ValueError" /\ ret_paths = <<>> /\ fetched = <<>>
                /\ samples = <<>> /\ emitted = <<>>)

\* C17's case: a get_records call of such a stream has called _iter_paths and
\* failed, and the path cache is still unset.
C17_Witness ==
    /\ stream_config.uri = <<>>
    /\ stream_config.uris = <<>>
    /\ op = "get_records"
    /\ "_iter_paths" \in called
    /\ err = "ValueError"
    /\ _cached_paths.none

====
